---- MODULE Spec2Model ----
(***************************************************************************)
(* Model of src/YY.py: NetEaseMusicDownloader (download_song,              *)
(* _download_with_progress, download_playlist, download_from_api).         *)
(* Strings are sequences of one-character strings, so that strip, split,   *)
(* lower, endswith and the header parsing are computed as the code does.   *)
(***************************************************************************)
EXTENDS Integers, Sequences, FiniteSets, TLC

VARIABLES
    files,            \* the disk: path -> [data, body] for every existing file
    max_retries,      \* self.max_retries
    pc,               \* position inside download_song / _download_with_progress
    ctx,              \* who called download_song: "top", "playlist" or "api"
    song_id,          \* download_song argument
    filename,         \* download_song argument (None or a string)
    retry,            \* loop variable of download_song
    response,         \* response of the HEAD request of the current attempt
    save_path,        \* resolved destination path (None before it is resolved)
    result,           \* value returned by the last download_song call
    xfer,             \* body being streamed by _download_with_progress and position
    probes,           \* number of HEAD requests issued by the current call
    transients,       \* how many of them returned a status other than 200 and 404
    notfounds,        \* how many of them returned 404
    fetches,          \* number of GET requests issued by the current call
    sleeps2,          \* number of time.sleep(2) executed by the current call
    answer,           \* what was last typed at the overwrite prompt in the current call
    startFiles,       \* the disk when the current download_song call started
    lastCall,         \* arguments and result of the previous download_song call of the batch
    drv,              \* position of the batch driver (download_playlist / download_from_api)
    lines,            \* f.readlines() of the playlist file
    idx,              \* loop index of the batch driver (1-based)
    payload,          \* which of Payloads download_from_api received (0: none)
    song_ids,         \* song_ids list of download_from_api
    downloaded_files, \* downloaded_files list of the batch driver
    attempted,        \* [line, id, fn] of every download_song call of the batch
    sleeps1,          \* number of time.sleep(1) executed by the batch
    batchRet,         \* value returned by the last batch call (NoList before)
    args,             \* main: the parsed command line
    mpc,              \* main: position ("lib": the class is used without main)
    todo,             \* main --clean: the '*.tmp' files still to be visited
    cleaned,          \* main --clean: the counter cleaned
    ops               \* main: the operations started, menu choices included

vars == <<files, max_retries, pc, ctx, song_id, filename, retry, response,
          save_path, result, xfer, probes, transients, notfounds, fetches, sleeps2, answer,
          startFiles, lastCall, drv, lines, idx, payload, song_ids, downloaded_files,
          attempted, sleeps1, batchRet, args, mpc, todo, cleaned, ops>>

\* the state of main
mainVars == <<args, mpc, todo, cleaned, ops>>

\* Python's None where a string or a path is expected
None == <<"<None>">>

NoResponse == [status |-> 0, cd |-> <<>>]

NoXfer == [body |-> <<>>, pos |-> 0]

\* no list returned yet
NoList == <<None>>

(***************************************************************************)
(* Bounds of the model.                                                    *)
(***************************************************************************)
MaxRetriesArg == 2      \* max_retries ranges over 0..MaxRetriesArg
MaxLines == 2           \* longest playlist file, in lines

(***************************************************************************)
(* String helpers (Python str methods used by the code).                   *)
(***************************************************************************)
S1(c) == <<c>>

Whitespace == {" ", "\n", "\t", "\r"}

RECURSIVE LStrip(_, _)
LStrip(s, cs) == IF s # <<>> /\ Head(s) \in cs THEN LStrip(Tail(s), cs) ELSE s

RECURSIVE RStrip(_, _)
RStrip(s, cs) ==
    IF s # <<>> /\ s[Len(s)] \in cs THEN RStrip(SubSeq(s, 1, Len(s) - 1), cs) ELSE s

\* str.strip() and str.strip(chars)
StripChars(s, cs) == RStrip(LStrip(s, cs), cs)
Strip(s) == StripChars(s, Whitespace)

StartsWith(s, p) == Len(s) >= Len(p) /\ SubSeq(s, 1, Len(p)) = p
EndsWith(s, p) == Len(s) >= Len(p) /\ SubSeq(s, Len(s) - Len(p) + 1, Len(s)) = p

\* str.split(sep) for a one-character separator: every occurrence splits
RECURSIVE Split(_, _)
Split(s, sep) ==
    IF \E i \in 1..Len(s) : s[i] = sep
    THEN LET i == CHOOSE j \in 1..Len(s) : s[j] = sep /\ \A k \in 1..(j - 1) : s[k] # sep
         IN  <<SubSeq(s, 1, i - 1)>> \o Split(SubSeq(s, i + 1, Len(s)), sep)
    ELSE <<s>>

\* 'pat' in s
Contains(s, pat) == \E i \in 1..(Len(s) - Len(pat) + 1) : SubSeq(s, i, i + Len(pat) - 1) = pat

\* s.split(pat)[-1]: the text after the last occurrence of pat (s if there is none)
AfterLast(s, pat) ==
    IF Contains(s, pat)
    THEN LET i == CHOOSE j \in 1..(Len(s) - Len(pat) + 1) :
                      /\ SubSeq(s, j, j + Len(pat) - 1) = pat
                      /\ \A k \in (j + 1)..(Len(s) - Len(pat) + 1) :
                             SubSeq(s, k, k + Len(pat) - 1) # pat
         IN  SubSeq(s, i + Len(pat), Len(s))
    ELSE s

LowerChar(c) == CASE c = "Y" -> "y" [] c = "N" -> "n" [] OTHER -> c

\* str.lower()
Lower(s) == [i \in 1..Len(s) |-> LowerChar(s[i])]

Digits == {"0", "1", "2", "3", "4", "5", "6", "7", "8", "9"}

\* str.isdigit()
IsDigit(s) == s # <<>> /\ \A i \in 1..Len(s) : s[i] \in Digits

Mp3 == <<".", "m", "p", "3">>

(***************************************************************************)
(* Values the environment can supply.                                      *)
(***************************************************************************)
SaveDir == <<"downloads">>          \* args.output default, kept as one token

FilenameEq == <<"f", "i", "l", "e", "n", "a", "m", "e", "=">>

\* bytes >= 0x80 of a header, as requests hands them over (latin-1 decoded)
HighBytes == {"0xC3", "0xA9", "0xE9"}

\* Content-Disposition header values of a 200 response (<<>>: header absent)
ContentDispositions ==
    { <<>>,
      <<"a", ";", " ">> \o FilenameEq \o <<"\"", "s", ".", "m", "p", "3", "\"">>,
      FilenameEq \o <<"0xC3", "0xA9", ".", "m", "p", "3">>,
      FilenameEq \o <<"0xE9", ".", "m", "p", "3">> }

OkStatus == 200
NotFoundStatus == 404
TransientStatuses == {500, 302}

\* what the user types at the overwrite prompt
Answers == { <<"y">>, <<"Y">>, <<"n">>, <<>> }

\* response bodies, as the chunks response.iter_content yields ("" is an
\* empty chunk)
Bodies == { <<>>, <<"x", "", "y">> }

\* the bytes a body amounts to once the empty chunks are dropped
RECURSIVE Payload(_)
Payload(b) ==
    IF b = <<>> THEN <<>>
    ELSE IF Head(b) = "" THEN Payload(Tail(b)) ELSE <<Head(b)>> \o Payload(Tail(b))

(***************************************************************************)
(* The disk.                                                               *)
(***************************************************************************)
Exists(fs, p) == p \in DOMAIN fs

Put(fs, p, rec) == [q \in DOMAIN fs \cup {p} |-> IF q = p THEN rec ELSE fs[q]]

\* Path.unlink()
Unlink(fs, p) == [q \in DOMAIN fs \ {p} |-> fs[q]]

\* pathlib's "/" operator: an absolute right-hand side replaces the left one
PathJoin(dir, name) ==
    IF name # <<>> /\ Head(name) = "/" THEN name ELSE dir \o <<"/">> \o name

OldFile == [data |-> <<"o">>, body |-> <<"o">>]

EmptyDisk == [q \in {} |-> OldFile]

InitialDisks ==
    { EmptyDisk,
      [q \in {PathJoin(SaveDir, <<"a">> \o Mp3)} |-> OldFile],
      [q \in {PathJoin(SaveDir, <<"s">> \o Mp3),
              PathJoin(SaveDir, <<"n", "e", "t", "m", "u", "s", "i", "c", "_", "1">> \o Mp3)}
          |-> OldFile] }

(***************************************************************************)
(* _get_download_url, _get_filename_from_headers                           *)
(***************************************************************************)
_get_download_url(id) ==
    <<"https://music.163.com/song/media/outer/url?id=">> \o id \o Mp3

\* bytes.decode('utf-8') of str.encode('ISO-8859-1'): [ok, v]
RECURSIVE Utf8Decode(_)
Utf8Decode(s) ==
    IF s = <<>> THEN [ok |-> TRUE, v |-> <<>>]
    ELSE IF Head(s) \notin HighBytes
         THEN LET r == Utf8Decode(Tail(s))
              IN  [ok |-> r.ok, v |-> <<Head(s)>> \o r.v]
         ELSE IF Len(s) >= 2 /\ s[1] = "0xC3" /\ s[2] = "0xA9"
              THEN LET r == Utf8Decode(SubSeq(s, 3, Len(s)))
                   IN  [ok |-> r.ok, v |-> <<"U+00E9">> \o r.v]
              ELSE [ok |-> FALSE, v |-> <<>>]

\* [ok, v]: ok = FALSE when the decode raises UnicodeDecodeError
_get_filename_from_headers(resp, id) ==
    IF Contains(resp.cd, FilenameEq)
    THEN Utf8Decode(StripChars(AfterLast(resp.cd, FilenameEq), {"\"", "'"}))
    ELSE [ok |-> TRUE, v |-> <<"n", "e", "t", "m", "u", "s", "i", "c", "_">> \o id \o Mp3]

\* lines 139-144 of download_song: [ok, v]
ResolveFilename(fn, resp, id) ==
    IF fn # None /\ fn # <<>>
    THEN [ok |-> TRUE, v |-> IF EndsWith(fn, Mp3) THEN fn ELSE fn \o Mp3]
    ELSE _get_filename_from_headers(resp, id)

\* main is not running: the downloader is used as a library
NoArgs == [list |-> FALSE, clean |-> FALSE, file |-> None, id |-> None, name |-> None]

NoMain ==
    /\ args = NoArgs
    /\ mpc = "lib"
    /\ todo = {}
    /\ cleaned = 0
    /\ ops = <<>>

(***************************************************************************)
(* download_song: decisions                                                *)
(***************************************************************************)
LoopContinues_OffByOne(r, m) == r <= m

\* for retry in range(self.max_retries)
LoopContinues(r, m) == r < m

AfterProbeStatus_Retry404(status) ==
    IF status # OkStatus THEN "continue" ELSE "proceed"

AfterProbeStatus_TransientProceeds(status) ==
    IF status = NotFoundStatus THEN "return" ELSE "proceed"

AfterProbeStatus_NotFoundProceeds(status) ==
    IF status \in {OkStatus, NotFoundStatus} THEN "proceed" ELSE "continue"

AfterProbeStatus_AlwaysProceed(status) == "proceed"

\* lines 131-136: what a HEAD status leads to
AfterProbeStatus(status) ==
    IF status = NotFoundStatus THEN "return"
    ELSE IF status # OkStatus THEN "continue"
    ELSE "proceed"

Declined_Inverted(typed) == Lower(typed) = <<"y">>

\* lines 151-152: overwrite = input(...).lower(); overwrite != 'y'
Declined(typed) == Lower(typed) # <<"y">>

FetchCleanup_Keep(fs, p) == fs

FetchCleanup_Restore(fs, p) ==
    IF Exists(startFiles, p) THEN Put(fs, p, startFiles[p])
    ELSE IF Exists(fs, p) THEN Unlink(fs, p) ELSE fs

\* lines 99-101: the except branch of _download_with_progress
FetchCleanup(fs, p) == IF Exists(fs, p) THEN Unlink(fs, p) ELSE fs

OpenForWrite_Append(fs, p, body) ==
    IF Exists(fs, p) THEN [fs EXCEPT ![p].body = Payload(body)]
    ELSE Put(fs, p, [data |-> <<>>, body |-> Payload(body)])

\* open(save_path, 'wb'): the file is created or truncated
OpenForWrite(fs, p, body) == Put(fs, p, [data |-> <<>>, body |-> Payload(body)])

WriteChunk_Dropped(fs, p, chunk) == fs

\* if chunk: f.write(chunk)
WriteChunk(fs, p, chunk) ==
    IF chunk # "" THEN [fs EXCEPT ![p].data = Append(@, chunk)] ELSE fs

SleepBeforeAttempt_Always(r) == 1

\* time.sleep(2) runs at the head of every attempt but the first
SleepBeforeAttempt(r) == IF r > 0 THEN 1 ELSE 0

InCall == pc \notin {"idle", "done"}

driverVars == <<drv, lines, idx, payload, song_ids, downloaded_files, attempted, sleeps1,
                batchRet>>
callArgs == <<max_retries, ctx, song_id, filename, startFiles, lastCall, mainVars>>

(***************************************************************************)
(* download_song: steps                                                    *)
(***************************************************************************)
\* entry of download_song(id, fn), called from context c
EnterSong(id, fn, c) ==
    /\ pc \in {"idle", "done"}
    /\ pc' = "loop"
    /\ ctx' = c
    /\ song_id' = id
    /\ filename' = fn
    /\ retry' = 0
    /\ response' = NoResponse
    /\ save_path' = None
    /\ result' = None
    /\ xfer' = NoXfer
    /\ probes' = 0
    /\ transients' = 0
    /\ notfounds' = 0
    /\ fetches' = 0
    /\ sleeps2' = 0
    /\ answer' = None
    /\ startFiles' = files
    /\ UNCHANGED <<files, max_retries, lastCall, mainVars>>

\* the end of one loop iteration without a return (continue, a caught
\* exception, or _download_with_progress returning False)
NextAttempt ==
    /\ retry' = retry + 1
    /\ pc' = "loop"
    /\ response' = NoResponse
    /\ save_path' = None
    /\ xfer' = NoXfer

\* return value: the locals of the call are gone
Return(value) ==
    /\ result' = value
    /\ pc' = "done"
    /\ retry' = 0
    /\ response' = NoResponse
    /\ save_path' = None
    /\ xfer' = NoXfer

\* the loop is over: lines 170-171
Exhausted ==
    /\ pc = "loop"
    /\ ~LoopContinues(retry, max_retries)
    /\ Return(None)
    /\ UNCHANGED <<files, probes, transients, notfounds, fetches, sleeps2, answer, callArgs,
                   driverVars>>

\* session.head raises (Timeout, RequestException, anything else)
ProbeRaises ==
    /\ pc = "loop"
    /\ LoopContinues(retry, max_retries)
    /\ sleeps2' = sleeps2 + SleepBeforeAttempt(retry)
    /\ probes' = probes + 1
    /\ UNCHANGED <<transients, notfounds>>
    /\ NextAttempt
    /\ UNCHANGED <<files, result, fetches, answer, callArgs, driverVars>>

\* session.head returns a response with the given status
ProbeStatus(status, cd) ==
    /\ pc = "loop"
    /\ LoopContinues(retry, max_retries)
    /\ sleeps2' = sleeps2 + SleepBeforeAttempt(retry)
    /\ probes' = probes + 1
    /\ transients' = transients + IF status \notin {OkStatus, NotFoundStatus} THEN 1 ELSE 0
    /\ notfounds' = notfounds + IF status = NotFoundStatus THEN 1 ELSE 0
    /\ CASE AfterProbeStatus(status) = "return" ->
              Return(None)
         [] AfterProbeStatus(status) = "continue" ->
              /\ NextAttempt
              /\ UNCHANGED result
         [] OTHER ->
              /\ response' = [status |-> status, cd |-> cd]
              /\ pc' = "decide"
              /\ UNCHANGED <<retry, save_path, xfer, result>>
    /\ UNCHANGED <<files, fetches, answer, callArgs, driverVars>>

Probe404 == ProbeStatus(NotFoundStatus, <<>>)

ProbeTransient == \E st \in TransientStatuses : ProbeStatus(st, <<>>)

ProbeOk == \E cd \in ContentDispositions : ProbeStatus(OkStatus, cd)

\* lines 138-156: resolve the file name, look for an existing file
Decide ==
    /\ pc = "decide"
    /\ LET name == ResolveFilename(filename, response, song_id)
           path == PathJoin(SaveDir, name.v)
       IN  IF ~name.ok
           THEN NextAttempt                          \* caught by except Exception
           ELSE /\ save_path' = path
                /\ pc' = IF Exists(files, path) THEN "confirm" ELSE "get"
                /\ UNCHANGED <<retry, response, xfer>>
    /\ UNCHANGED <<files, result, probes, transients, notfounds, fetches, sleeps2, answer, callArgs,
                   driverVars>>

\* lines 151-154: the overwrite prompt is answered
Confirm ==
    /\ pc = "confirm"
    /\ \E a \in Answers :
         /\ answer' = a
         /\ IF Declined(a)
            THEN Return(save_path)
            ELSE /\ pc' = "get"
                 /\ UNCHANGED <<result, retry, response, save_path, xfer>>
    /\ UNCHANGED <<files, probes, transients, notfounds, fetches, sleeps2, callArgs, driverVars>>

\* input() raises (EOFError on a closed stdin)
ConfirmRaises ==
    /\ pc = "confirm"
    /\ NextAttempt
    /\ UNCHANGED <<files, result, probes, transients, notfounds, fetches, sleeps2, answer, callArgs,
                   driverVars>>

(***************************************************************************)
(* _download_with_progress: steps                                          *)
(***************************************************************************)
\* lines 65-80: the GET succeeds and the destination file is opened
FetchOpen ==
    /\ pc = "get"
    /\ fetches' = fetches + 1
    /\ \E b \in Bodies :
         /\ xfer' = [body |-> b, pos |-> 0]
         /\ files' = OpenForWrite(files, save_path, b)
    /\ pc' = "stream"
    /\ UNCHANGED <<retry, response, save_path, result, probes, transients, notfounds, sleeps2, answer,
                   callArgs, driverVars>>

\* lines 65-80 raise (session.get, raise_for_status, int(content-length), open):
\* control moves to the except branch
FetchRaisesEarly ==
    /\ pc = "get"
    /\ fetches' = fetches + 1
    /\ pc' = "except"
    /\ UNCHANGED <<files, retry, response, save_path, result, xfer, probes, transients,
                   notfounds, sleeps2, answer, callArgs, driverVars>>

\* lines 81-84: one chunk of the body is read and written
FetchChunk ==
    /\ pc = "stream"
    /\ xfer.pos < Len(xfer.body)
    /\ files' = WriteChunk(files, save_path, xfer.body[xfer.pos + 1])
    /\ xfer' = [xfer EXCEPT !.pos = @ + 1]
    /\ UNCHANGED <<pc, retry, response, save_path, result, probes, transients, notfounds, fetches,
                   sleeps2, answer, callArgs, driverVars>>

\* iter_content or f.write raises: the with block closes the file and control
\* moves to the except branch
FetchRaises ==
    /\ pc = "stream"
    /\ pc' = "except"
    /\ UNCHANGED <<files, retry, response, save_path, result, xfer, probes, transients,
                   notfounds, fetches, sleeps2, answer, callArgs, driverVars>>

\* lines 97-102: the except branch removes the file and returns False, which
\* ends the attempt of download_song
FetchExcept ==
    /\ pc = "except"
    /\ files' = FetchCleanup(files, save_path)
    /\ NextAttempt
    /\ UNCHANGED <<result, probes, transients, notfounds, fetches, sleeps2, answer,
                   callArgs, driverVars>>

\* the body is exhausted: True is returned and download_song returns save_path
FetchDone ==
    /\ pc = "stream"
    /\ xfer.pos = Len(xfer.body)
    /\ Return(save_path)
    /\ UNCHANGED <<files, probes, transients, notfounds, fetches, sleeps2, answer, callArgs,
                   driverVars>>


(***************************************************************************)
(* download_playlist                                                       *)
(***************************************************************************)
RECURSIVE SeqsUpTo(_, _)
SeqsUpTo(S, n) ==
    IF n = 0 THEN { <<>> }
    ELSE LET shorter == SeqsUpTo(S, n - 1)
         IN  shorter \cup { Append(q, e) : q \in shorter, e \in S }

\* lines of the list files the model reads (f.readlines() keeps the "\n")
PlaylistLines ==
    { <<"1", "\n">>,
      <<"\n">>,
      <<"2", ",", "c">>,
      <<" ", "#", "c", "\n">> }

Playlists == SeqsUpTo(PlaylistLines, MaxLines)

SkipLine_BlankOnly(line) == Strip(line) = <<>>

\* lines 195-197: line = line.strip(); if not line or line.startswith('#'): continue
SkipLine(line) == Strip(line) = <<>> \/ StartsWith(Strip(line), <<"#">>)

\* lines 200-206: [id, fn] of an eligible line
ParseLine(line) ==
    LET parts == Split(Strip(line), ",")
    IN  [id |-> Strip(parts[1]),
         fn |-> IF Len(parts) > 1 THEN Strip(parts[2]) ELSE None]

\* the batch driver has taken the value download_song returned: the call is
\* over and becomes the previous call
CallConsumed ==
    /\ pc' = "idle"
    /\ lastCall' = [id |-> song_id, filename |-> filename, result |-> result]
    /\ probes' = 0
    /\ transients' = 0
    /\ notfounds' = 0
    /\ fetches' = 0
    /\ sleeps2' = 0
    /\ answer' = None
    /\ startFiles' = files
    /\ UNCHANGED <<files, max_retries, ctx, song_id, filename, retry, response,
                   save_path, result, xfer, mainVars>>

PacingSleeps_OnSuccessOnly(res) == IF res # None THEN 1 ELSE 0

\* line 213 (and 255): time.sleep(1) after every item, whatever it returned
PacingSleeps(res) == 1

Collect_KeepsNone(list, res) == Append(list, res)

\* lines 210-211: if result: downloaded_files.append(result)
Collect(list, res) == IF res # None THEN Append(list, res) ELSE list

\* nothing has been started yet: main runs one operation per invocation
DrvIdle == drv = "idle" /\ pc = "idle"

songVars == <<files, max_retries, pc, ctx, song_id, filename, retry, response,
              save_path, result, xfer, probes, transients, notfounds, fetches, sleeps2, answer,
              startFiles, lastCall, mainVars>>

\* a top-level call of download_song (main: -i/-n, or menu choice 1)
TopIds == { <<"1">> }
TopNames == { None, <<"a">>, <<"a">> \o Mp3 }

TopDownloadSong ==
    /\ DrvIdle
    /\ \E id \in TopIds, fn \in TopNames : EnterSong(id, fn, "top")
    /\ drv' = "idle"
    /\ lines' = <<>>
    /\ idx' = 0
    /\ payload' = 0
    /\ song_ids' = <<>>
    /\ downloaded_files' = <<>>
    /\ attempted' = <<>>
    /\ sleeps1' = 0
    /\ batchRet' = NoList

\* lines 183-185: the list file does not exist
PlaylistMissing ==
    /\ DrvIdle
    /\ drv' = "pl_done"
    /\ lines' = <<>>
    /\ idx' = 0
    /\ payload' = 0
    /\ song_ids' = <<>>
    /\ downloaded_files' = <<>>
    /\ attempted' = <<>>
    /\ sleeps1' = 0
    /\ batchRet' = <<>>
    /\ UNCHANGED songVars

\* lines 187-192: the list file is read
PlaylistStart ==
    /\ DrvIdle
    /\ drv' = "pl_loop"
    /\ \E ls \in Playlists : lines' = ls
    /\ idx' = 1
    /\ payload' = 0
    /\ song_ids' = <<>>
    /\ downloaded_files' = <<>>
    /\ attempted' = <<>>
    /\ sleeps1' = 0
    /\ batchRet' = NoList
    /\ UNCHANGED songVars

\* lines 194-197: a blank or comment line
PlaylistSkip ==
    /\ drv = "pl_loop"
    /\ idx <= Len(lines)
    /\ SkipLine(lines[idx])
    /\ idx' = idx + 1
    /\ UNCHANGED <<drv, lines, payload, song_ids, downloaded_files, attempted, sleeps1,
                   batchRet, songVars>>

\* lines 199-209: an eligible line is parsed and download_song is called
PlaylistCall ==
    /\ drv = "pl_loop"
    /\ idx <= Len(lines)
    /\ ~SkipLine(lines[idx])
    /\ LET item == ParseLine(lines[idx])
       IN  /\ EnterSong(item.id, item.fn, "playlist")
           /\ attempted' = Append(attempted, [line |-> idx, id |-> item.id, fn |-> item.fn])
    /\ drv' = "pl_wait"
    /\ UNCHANGED <<lines, idx, payload, song_ids, downloaded_files, sleeps1, batchRet>>

\* lines 210-213: download_song has returned
PlaylistAfter ==
    /\ drv = "pl_wait"
    /\ pc = "done"
    /\ downloaded_files' = Collect(downloaded_files, result)
    /\ sleeps1' = sleeps1 + PacingSleeps(result)
    /\ idx' = idx + 1
    /\ drv' = "pl_loop"
    /\ CallConsumed
    /\ UNCHANGED <<lines, payload, song_ids, attempted, batchRet>>

\* lines 215-218
PlaylistReturn ==
    /\ drv = "pl_loop"
    /\ idx > Len(lines)
    /\ batchRet' = downloaded_files
    /\ drv' = "pl_done"
    /\ UNCHANGED <<lines, idx, payload, song_ids, downloaded_files, attempted, sleeps1,
                   songVars>>

(***************************************************************************)
(* download_from_api                                                       *)
(* A JSON value is [t, v]: t is its type, v its text (num, str, bool), its *)
(* elements (list) or its <<key, value>> pairs (dict).                     *)
(***************************************************************************)
Songs == <<"s", "o", "n", "g", "s">>
IdKey == <<"i", "d">>

JNull == [t |-> "null", v |-> <<>>]
JNum(text) == [t |-> "num", v |-> text]
JStr(text) == [t |-> "str", v |-> text]
JList(elems) == [t |-> "list", v |-> elems]
JDict(pairs) == [t |-> "dict", v |-> pairs]

\* what requests.get(api_url).json() can come to when no identifier is to be
\* had; "neterr": requests.get raises, "badjson": response.json() raises
MalformedPayloads ==
    << [t |-> "neterr", v |-> <<>>],
       [t |-> "badjson", v |-> <<>>],
       JNull,
       JNum(<<"5">>),
       JStr(Songs),
       JList(<<>>),
       JList(<< JStr(Songs) >>),
       JList(<< JStr(<<"x">>), JNum(<<"-", "3">>), JNull >>),
       JDict(<< <<Songs, JList(<< JDict(<< <<IdKey, JNum(<<"1">>)>> >>),
                                  JDict(<< <<<<"n">>, JStr(<<"x">>)>> >>) >>)>> >>),
       JDict(<< <<Songs, JList(<<>>)>> >>),
       JDict(<< <<Songs, JDict(<< <<IdKey, JNum(<<"1">>)>> >>)>> >>),
       JDict(<< <<Songs, JNull>> >>),
       JDict(<< <<Songs, JList(<< JNum(<<"5">>) >>)>> >>),
       JDict(<<>>) >>

\* payloads that carry identifiers
IdPayloads ==
    << JList(<< JNum(<<"1">>), JStr(<<"2">>), JStr(<<"x">>), JNum(<<"-", "3">>), JNull >>),
       JDict(<< <<Songs, JList(<< JDict(<< <<IdKey, JNum(<<"1">>)>> >>),
                                  JDict(<< <<IdKey, JStr(<<"2">>)>> >>) >>)>> >>),
       JDict(<< <<Songs, JList(<< JDict(<< <<IdKey, JStr(<<"x">>)>> >>) >>)>> >>),
       JDict(<< <<<<"1">>, JNull>>, <<<<"x">>, JNull>> >>),
       JStr(<<"1", "2">>) >>

Payloads == MalformedPayloads \o IdPayloads

\* str(value)
Str(j) ==
    CASE j.t \in {"num", "str", "bool"} -> j.v
      [] j.t = "null" -> <<"N", "o", "n", "e">>
      [] OTHER -> <<"[", "]">>

HasKey(j, key) == \E i \in 1..Len(j.v) : j.v[i][1] = key

\* 'songs' in value: [ok, v]
InSongs(j) ==
    CASE j.t = "dict" -> [ok |-> TRUE, v |-> HasKey(j, Songs)]
      [] j.t = "list" ->
           [ok |-> TRUE, v |-> \E i \in 1..Len(j.v) : j.v[i].t = "str" /\ j.v[i].v = Songs]
      [] j.t = "str" -> [ok |-> TRUE, v |-> Contains(j.v, Songs)]
      [] OTHER -> [ok |-> FALSE, v |-> FALSE]          \* TypeError

\* value[key] for a str key: [ok, v]
GetItem(j, key) ==
    IF j.t = "dict" /\ HasKey(j, key)
    THEN [ok |-> TRUE, v |-> j.v[CHOOSE i \in 1..Len(j.v) : j.v[i][1] = key][2]]
    ELSE [ok |-> FALSE, v |-> JNull]                   \* KeyError, TypeError

\* iter(value): [ok, v]
Iter(j) ==
    CASE j.t = "list" -> [ok |-> TRUE, v |-> j.v]
      [] j.t = "dict" -> [ok |-> TRUE, v |-> [i \in 1..Len(j.v) |-> JStr(j.v[i][1])]]
      [] j.t = "str" -> [ok |-> TRUE, v |-> [i \in 1..Len(j.v) |-> JStr(<<j.v[i]>>)]]
      [] OTHER -> [ok |-> FALSE, v |-> <<>>]           \* TypeError

RECURSIVE FilterDigits(_)
FilterDigits(items) ==
    IF items = <<>> THEN <<>>
    ELSE IF IsDigit(Str(Head(items)))
         THEN <<Str(Head(items))>> \o FilterDigits(Tail(items))
         ELSE FilterDigits(Tail(items))

RaisedIds == [ok |-> FALSE, ids |-> <<>>]

\* lines 232-241: [ok, ids]; ok = FALSE when an exception is raised
ParseSongIds(data) ==
    IF data.t \in {"neterr", "badjson"} \/ ~InSongs(data).ok THEN RaisedIds
    ELSE IF InSongs(data).v
         THEN LET songs == GetItem(data, Songs)
              IN  IF ~songs.ok \/ ~Iter(songs.v).ok THEN RaisedIds
                  ELSE LET elems == Iter(songs.v).v
                       IN  IF \E i \in 1..Len(elems) : ~GetItem(elems[i], IdKey).ok
                           THEN RaisedIds
                           ELSE [ok |-> TRUE,
                                 ids |-> [i \in 1..Len(elems) |->
                                             Str(GetItem(elems[i], IdKey).v)]]
         ELSE IF ~Iter(data).ok THEN RaisedIds
              ELSE [ok |-> TRUE, ids |-> FilterDigits(Iter(data).v)]

ApiOutcome_NoTry(parsed) ==
    IF ~parsed.ok THEN "raise"
    ELSE IF parsed.ids = <<>> THEN "empty" ELSE "loop"

\* lines 230, 243-245 and 260-262: an exception is caught and [] returned, no
\* identifier returns [], otherwise the download loop is entered
ApiOutcome(parsed) ==
    IF ~parsed.ok THEN "empty"
    ELSE IF parsed.ids = <<>> THEN "empty" ELSE "loop"

\* lines 230-249: the payload is fetched and parsed
ApiStart ==
    /\ DrvIdle
    /\ \E k \in 1..Len(Payloads) :
         LET parsed == ParseSongIds(Payloads[k])
         IN  /\ payload' = k
             /\ CASE ApiOutcome(parsed) = "empty" ->
                       /\ drv' = "api_done"
                       /\ song_ids' = <<>>
                       /\ batchRet' = <<>>
                  [] ApiOutcome(parsed) = "loop" ->
                       /\ drv' = "api_loop"
                       /\ song_ids' = parsed.ids
                       /\ batchRet' = NoList
                  [] OTHER ->                      \* the exception leaves the call
                       /\ drv' = "api_raised"
                       /\ song_ids' = <<>>
                       /\ batchRet' = NoList
    /\ idx' = 1
    /\ lines' = <<>>
    /\ downloaded_files' = <<>>
    /\ attempted' = <<>>
    /\ sleeps1' = 0
    /\ UNCHANGED songVars

\* lines 250-252: download_song is called for the next identifier
ApiCall ==
    /\ drv = "api_loop"
    /\ idx <= Len(song_ids)
    /\ EnterSong(song_ids[idx], None, "api")
    /\ attempted' = Append(attempted, [line |-> idx, id |-> song_ids[idx], fn |-> None])
    /\ drv' = "api_wait"
    /\ UNCHANGED <<lines, idx, payload, song_ids, downloaded_files, sleeps1, batchRet>>

\* lines 253-256: download_song has returned
ApiAfter ==
    /\ drv = "api_wait"
    /\ pc = "done"
    /\ downloaded_files' = Collect(downloaded_files, result)
    /\ sleeps1' = sleeps1 + PacingSleeps(result)
    /\ idx' = idx + 1
    /\ drv' = "api_loop"
    /\ CallConsumed
    /\ UNCHANGED <<lines, payload, song_ids, attempted, batchRet>>

\* line 258
ApiReturn ==
    /\ drv = "api_loop"
    /\ idx > Len(song_ids)
    /\ batchRet' = downloaded_files
    /\ drv' = "api_done"
    /\ UNCHANGED <<lines, idx, payload, song_ids, downloaded_files, attempted, sleeps1,
                   songVars>>

(***************************************************************************)
(* The program                                                             *)
(***************************************************************************)
Init ==
    /\ files \in InitialDisks
    /\ max_retries \in 0..MaxRetriesArg
    /\ pc = "idle"
    /\ ctx = "top"
    /\ song_id = None
    /\ filename = None
    /\ retry = 0
    /\ response = NoResponse
    /\ save_path = None
    /\ result = None
    /\ xfer = NoXfer
    /\ probes = 0
    /\ transients = 0
    /\ notfounds = 0
    /\ fetches = 0
    /\ sleeps2 = 0
    /\ answer = None
    /\ startFiles = files
    /\ lastCall = [id |-> None, filename |-> None, result |-> None]
    /\ drv = "idle"
    /\ lines = <<>>
    /\ idx = 0
    /\ payload = 0
    /\ song_ids = <<>>
    /\ downloaded_files = <<>>
    /\ attempted = <<>>
    /\ sleeps1 = 0
    /\ batchRet = NoList
    /\ NoMain

\* the steps of a running download_song call
SongNext ==
    \/ Exhausted
    \/ ProbeRaises
    \/ Probe404
    \/ ProbeTransient
    \/ ProbeOk
    \/ Decide
    \/ Confirm
    \/ ConfirmRaises
    \/ FetchOpen
    \/ FetchRaisesEarly
    \/ FetchChunk
    \/ FetchRaises
    \/ FetchExcept
    \/ FetchDone

Next ==
    \/ TopDownloadSong
    \/ PlaylistMissing
    \/ PlaylistStart
    \/ PlaylistSkip
    \/ PlaylistCall
    \/ PlaylistAfter
    \/ PlaylistReturn
    \/ ApiStart
    \/ ApiCall
    \/ ApiAfter
    \/ ApiReturn
    \/ SongNext

Spec == Init /\ [][Next]_vars

(***************************************************************************)
(* Parsing of one list-file line: download_playlist at the head of its     *)
(* loop with a one-line file, the line drawn from every text of at most    *)
(* MaxLineLen characters, with or without its line end.                    *)
(***************************************************************************)
MaxLineLen == 5

LineChars == { " ", "#", ",", "1", "a" }

RECURSIVE TextsUpTo(_)
TextsUpTo(n) ==
    IF n = 0 THEN { <<>> }
    ELSE LET shorter == TextsUpTo(n - 1)
         IN  shorter \cup { Append(q, c) : q \in shorter, c \in LineChars }

\* what f.readlines() gives for a one-line file: never the empty string
OneLineFiles ==
    { <<t>> : t \in TextsUpTo(MaxLineLen) \ { <<>> } }
      \cup { <<t \o <<"\n">> >> : t \in TextsUpTo(MaxLineLen) }

InitParse ==
    /\ files = EmptyDisk
    /\ max_retries = MaxRetriesArg
    /\ pc = "idle"
    /\ ctx = "top"
    /\ song_id = None
    /\ filename = None
    /\ retry = 0
    /\ response = NoResponse
    /\ save_path = None
    /\ result = None
    /\ xfer = NoXfer
    /\ probes = 0
    /\ transients = 0
    /\ notfounds = 0
    /\ fetches = 0
    /\ sleeps2 = 0
    /\ answer = None
    /\ startFiles = files
    /\ lastCall = [id |-> None, filename |-> None, result |-> None]
    /\ drv = "pl_loop"
    /\ lines \in OneLineFiles
    /\ idx = 1
    /\ payload = 0
    /\ song_ids = <<>>
    /\ downloaded_files = <<>>
    /\ attempted = <<>>
    /\ sleeps1 = 0
    /\ batchRet = NoList
    /\ NoMain

NextParse ==
    \/ PlaylistSkip
    \/ PlaylistCall

SpecParse == InitParse /\ [][NextParse]_vars

(***************************************************************************)
(* File-name resolution: download_song right after a probe answered 200,   *)
(* with the override, the Content-Disposition header and the identifier    *)
(* drawn from every text of at most MaxNameLen characters.                 *)
(***************************************************************************)
MaxNameLen == 2

RECURSIVE TextsOver(_, _)
TextsOver(chars, n) ==
    IF n = 0 THEN { <<>> }
    ELSE LET shorter == TextsOver(chars, n - 1)
         IN  shorter \cup { Append(q, c) : q \in shorter, c \in chars }

\* filename argument: absent, or typed by the user (-n, menu, list-file line)
NameOverrides ==
    { None } \cup TextsOver({"a", "/", "."}, MaxNameLen)
             \cup { t \o Mp3 : t \in TextsOver({"a", "/", "."}, MaxNameLen) }

\* Content-Disposition values: absent, or a filename parameter, quoted or not
HeaderValues ==
    { <<>>, <<"i", "n", "l", "i", "n", "e">> }
      \cup { FilenameEq \o t : t \in TextsOver({"a", "/", "0xC3", "0xA9"}, MaxNameLen) }
      \cup { <<"a", ";", " ">> \o FilenameEq \o <<"\"">> \o t \o <<"\"">> :
                t \in TextsOver({"a", "/", "0xC3", "0xA9"}, MaxNameLen) }

InitResolve ==
    /\ files \in InitialDisks
    /\ max_retries = 1
    /\ pc = "decide"
    /\ ctx = "top"
    /\ song_id \in { <<"1">>, <<"2", "2">> }
    /\ filename \in NameOverrides
    /\ retry = 0
    /\ response \in { [status |-> OkStatus, cd |-> h] : h \in HeaderValues }
    /\ save_path = None
    /\ result = None
    /\ xfer = NoXfer
    /\ probes = 1
    /\ transients = 0
    /\ notfounds = 0
    /\ fetches = 0
    /\ sleeps2 = 0
    /\ answer = None
    /\ startFiles = files
    /\ lastCall = [id |-> None, filename |-> None, result |-> None]
    /\ drv = "idle"
    /\ lines = <<>>
    /\ idx = 0
    /\ payload = 0
    /\ song_ids = <<>>
    /\ downloaded_files = <<>>
    /\ attempted = <<>>
    /\ sleeps1 = 0
    /\ batchRet = NoList
    /\ NoMain

NextResolve == Decide

SpecResolve == InitResolve /\ [][NextResolve]_vars

(***************************************************************************)
(* main: the command line and the interactive menu.                        *)
(***************************************************************************)
\* the number of menu rounds followed
MaxMenuRounds == 2

\* max_retries of the downloader main builds: the default of __init__
DefaultMaxRetries == 3

Tmp == <<".", "t", "m", "p">>

\* bool(x) of an optional string
Truthy(x) == x # None /\ x # <<>>

Glob_AnySuffix(fs, suffix) ==
    { q \in DOMAIN fs :
        /\ StartsWith(q, SaveDir \o <<"/">>)
        /\ ~Contains(SubSeq(q, Len(SaveDir) + 2, Len(q)), <<"/">>) }

\* save_dir.glob('*' + suffix): the entries of the directory itself whose
\* name ends with the suffix
Glob(fs, suffix) ==
    { q \in DOMAIN fs :
        /\ StartsWith(q, SaveDir \o <<"/">>)
        /\ ~Contains(SubSeq(q, Len(SaveDir) + 2, Len(q)), <<"/">>)
        /\ EndsWith(SubSeq(q, Len(SaveDir) + 2, Len(q)), suffix) }

Selected_FileFirst(a) ==
    IF Truthy(a.file) THEN "file"
    ELSE IF a.list THEN "list"
    ELSE IF a.clean THEN "clean"
    ELSE IF Truthy(a.id) THEN "id"
    ELSE "menu"

\* lines 321-353: the chain of ifs, each branch but the last two returning
Selected(a) ==
    IF a.list THEN "list"
    ELSE IF a.clean THEN "clean"
    ELSE IF Truthy(a.file) THEN "file"
    ELSE IF Truthy(a.id) THEN "id"
    ELSE "menu"

\* command lines: every combination of --list and --clean with -f and -i
\* absent or given, and -f "", -i "" and -n next to them
CommandLines ==
    { [list |-> l, clean |-> c, file |-> f, id |-> i, name |-> None] :
        l \in BOOLEAN, c \in BOOLEAN, f \in {None, <<"f">>}, i \in {None, <<"1">>} }
      \cup { [list |-> l, clean |-> FALSE, file |-> <<>>, id |-> <<"1">>, name |-> <<"a">>] :
                l \in BOOLEAN }
      \cup { [list |-> FALSE, clean |-> c, file |-> <<"f">>, id |-> <<>>, name |-> None] :
                c \in BOOLEAN }

\* a save directory with a download, two temporary files and a look-alike,
\* a temporary file in a subdirectory and one outside the save directory
MainDisk ==
    [q \in { PathJoin(SaveDir, <<"a">> \o Mp3),
             PathJoin(SaveDir, <<"x">> \o Tmp),
             PathJoin(SaveDir, <<"y">> \o Tmp),
             PathJoin(SaveDir, <<"x">> \o Tmp \o Mp3),
             PathJoin(SaveDir, <<"d", "/", "z">> \o Tmp),
             <<"w">> \o Tmp } |-> OldFile]

\* every variable of the downloader but the disk and max_retries, as after
\* construction
Fresh ==
    /\ pc' = "idle"
    /\ ctx' = "top"
    /\ song_id' = None
    /\ filename' = None
    /\ retry' = 0
    /\ response' = NoResponse
    /\ save_path' = None
    /\ result' = None
    /\ xfer' = NoXfer
    /\ probes' = 0
    /\ transients' = 0
    /\ notfounds' = 0
    /\ fetches' = 0
    /\ sleeps2' = 0
    /\ answer' = None
    /\ startFiles' = files
    /\ lastCall' = [id |-> None, filename |-> None, result |-> None]
    /\ drv' = "idle"
    /\ lines' = <<>>
    /\ idx' = 0
    /\ payload' = 0
    /\ song_ids' = <<>>
    /\ downloaded_files' = <<>>
    /\ attempted' = <<>>
    /\ sleeps1' = 0
    /\ batchRet' = NoList

\* the variables of the downloader
libVars == <<files, max_retries, pc, ctx, song_id, filename, retry, response,
             save_path, result, xfer, probes, transients, notfounds, fetches, sleeps2, answer,
             startFiles, lastCall, drv, lines, idx, payload, song_ids, downloaded_files,
             attempted, sleeps1, batchRet>>

InitMain ==
    /\ files = MainDisk
    /\ max_retries = DefaultMaxRetries
    /\ pc = "idle"
    /\ ctx = "top"
    /\ song_id = None
    /\ filename = None
    /\ retry = 0
    /\ response = NoResponse
    /\ save_path = None
    /\ result = None
    /\ xfer = NoXfer
    /\ probes = 0
    /\ transients = 0
    /\ notfounds = 0
    /\ fetches = 0
    /\ sleeps2 = 0
    /\ answer = None
    /\ startFiles = files
    /\ lastCall = [id |-> None, filename |-> None, result |-> None]
    /\ drv = "idle"
    /\ lines = <<>>
    /\ idx = 0
    /\ payload = 0
    /\ song_ids = <<>>
    /\ downloaded_files = <<>>
    /\ attempted = <<>>
    /\ sleeps1 = 0
    /\ batchRet = NoList
    /\ args \in CommandLines
    /\ mpc = "start"
    /\ todo = {}
    /\ cleaned = 0
    /\ ops = <<>>

\* lines 321-329: --list prints the *.mp3 files and returns
MainList ==
    /\ mpc = "start"
    /\ Selected(args) = "list"
    /\ mpc' = "exit"
    /\ ops' = <<"list">>
    /\ UNCHANGED <<args, todo, cleaned, libVars>>

\* lines 332-335: --clean starts to walk the *.tmp files
MainClean ==
    /\ mpc = "start"
    /\ Selected(args) = "clean"
    /\ mpc' = "clean"
    /\ ops' = <<"clean">>
    /\ todo' = Glob(files, Tmp)
    /\ cleaned' = 0
    /\ UNCHANGED <<args, libVars>>

\* lines 336-338: file.unlink() succeeds
CleanUnlink ==
    /\ mpc = "clean"
    /\ \E f \in todo :
         /\ files' = IF Exists(files, f) THEN Unlink(files, f) ELSE files
         /\ todo' = todo \ {f}
    /\ cleaned' = cleaned + 1
    /\ UNCHANGED <<args, mpc, ops, max_retries, pc, ctx, song_id, filename, retry,
                   response, save_path, result, xfer, probes, transients, notfounds,
                   fetches, sleeps2, answer, startFiles, lastCall, drv, lines, idx,
                   payload, song_ids, downloaded_files, attempted, sleeps1, batchRet>>

\* lines 336-340: file.unlink() raises, except: pass
CleanUnlinkFails ==
    /\ mpc = "clean"
    /\ \E f \in todo : todo' = todo \ {f}
    /\ UNCHANGED <<args, mpc, ops, cleaned, libVars>>

\* lines 341-342: the loop is over
CleanDone ==
    /\ mpc = "clean"
    /\ todo = {}
    /\ mpc' = "exit"
    /\ UNCHANGED <<args, todo, cleaned, ops, libVars>>

\* line 345: -f selects download_playlist
MainFile ==
    /\ mpc = "start"
    /\ Selected(args) = "file"
    /\ mpc' = "file"
    /\ ops' = <<"file">>
    /\ UNCHANGED <<args, todo, cleaned, libVars>>

\* line 346: downloader.download_playlist(args.file)
MainFileCall ==
    /\ mpc = "file"
    /\ PlaylistMissing \/ PlaylistStart

\* line 347: return
MainFileReturn ==
    /\ mpc = "file"
    /\ drv = "pl_done"
    /\ mpc' = "exit"
    /\ UNCHANGED <<args, todo, cleaned, ops, libVars>>

\* line 350: -i selects download_song
MainId ==
    /\ mpc = "start"
    /\ Selected(args) = "id"
    /\ mpc' = "id"
    /\ ops' = <<"id">>
    /\ UNCHANGED <<args, todo, cleaned, libVars>>

\* line 351: downloader.download_song(args.id, args.name)
MainIdCall ==
    /\ mpc = "id"
    /\ DrvIdle
    /\ EnterSong(args.id, args.name, "top")
    /\ UNCHANGED driverVars

\* the end of main after line 351
MainIdReturn ==
    /\ mpc = "id"
    /\ pc = "done"
    /\ mpc' = "exit"
    /\ UNCHANGED <<args, todo, cleaned, ops, libVars>>

\* lines 352-355: neither -f nor -i: the menu
MainMenu ==
    /\ mpc = "start"
    /\ Selected(args) = "menu"
    /\ mpc' = "menu"
    /\ UNCHANGED <<args, todo, cleaned, ops, libVars>>

\* what is typed at the menu prompt
MenuInputs == { <<"1">>, <<" ", "2">>, <<"3">>, <<"4">>, <<"4", "4">> }

\* lines 357-393: where a choice leads
AfterChoice(choice) ==
    CASE choice = <<"1">> -> "m1"
      [] choice = <<"2">> -> "m2"
      [] choice = <<"4">> -> "exit"
      [] OTHER -> "menu"

\* lines 364-393: a choice is read; 3 lists the files, anything unknown is
\* reported, and both go round the loop
MenuPick ==
    /\ mpc = "menu"
    /\ Len(ops) < MaxMenuRounds
    /\ \E typed \in MenuInputs :
         /\ ops' = Append(ops, Strip(typed))
         /\ mpc' = AfterChoice(Strip(typed))
    /\ UNCHANGED <<args, todo, cleaned, libVars>>

\* lines 367-370: an identifier is typed, then a name or nothing
MenuSongCall ==
    /\ mpc = "m1"
    /\ DrvIdle
    /\ \E fn \in {None, <<"a">>} : EnterSong(<<"1">>, fn, "top")
    /\ UNCHANGED driverVars

\* lines 367-368: nothing is typed for the identifier
MenuSongSkip ==
    /\ mpc = "m1"
    /\ DrvIdle
    /\ mpc' = "menu"
    /\ UNCHANGED <<args, todo, cleaned, ops, libVars>>

\* lines 373-375: the path typed is that of an existing file
MenuPlaylistCall ==
    /\ mpc = "m2"
    /\ PlaylistStart

\* lines 373-377: nothing typed, or no such file
MenuPlaylistNoFile ==
    /\ mpc = "m2"
    /\ DrvIdle
    /\ mpc' = "menu"
    /\ UNCHANGED <<args, todo, cleaned, ops, libVars>>

\* the call made for choice 1 or 2 has returned: back to the head of the loop
MenuBack ==
    /\ mpc \in {"m1", "m2"}
    /\ (drv = "idle" /\ pc = "done") \/ drv = "pl_done"
    /\ mpc' = "menu"
    /\ Fresh
    /\ UNCHANGED <<files, max_retries, args, todo, cleaned, ops>>

\* input() raises (EOFError on a closed stdin): nothing in main catches it
MenuInputRaises ==
    /\ mpc \in {"menu", "m1", "m2"}
    /\ DrvIdle
    /\ mpc' = "crashed"
    /\ UNCHANGED <<args, todo, cleaned, ops, libVars>>

NextMain ==
    \/ MainList
    \/ MainClean
    \/ CleanUnlink
    \/ CleanUnlinkFails
    \/ CleanDone
    \/ MainFile
    \/ MainFileCall
    \/ MainFileReturn
    \/ MainId
    \/ MainIdCall
    \/ MainIdReturn
    \/ MainMenu
    \/ MenuPick
    \/ MenuSongCall
    \/ MenuSongSkip
    \/ MenuPlaylistCall
    \/ MenuPlaylistNoFile
    \/ MenuBack
    \/ MenuInputRaises
    \/ PlaylistSkip
    \/ PlaylistCall
    \/ PlaylistAfter
    \/ PlaylistReturn
    \/ SongNext

SpecMain == InitMain /\ [][NextMain]_vars

(***************************************************************************)
(* Properties                                                              *)
(***************************************************************************)
Complete(f) == f.data = f.body

\* the overwrite prompt was answered with yes
IsYes(a) == a \in { <<"y">>, <<"Y">> }

\* C1: a download_song call whose probe returns 404 returns None; when the
\* probe returned 404 from the first attempt on, the call has issued no GET,
\* has made exactly one probe, has not slept and has left the disk as it was.
C1_NotFoundNoFetch ==
    /\ notfounds >= 1 => (pc = "done" /\ result = None /\ notfounds = 1)
    /\ (notfounds >= 1 /\ notfounds = probes) =>
          (fetches = 0 /\ sleeps2 = 0 /\ files = startFiles)

C1_Witness ==
    /\ pc = "done"
    /\ probes = 1
    /\ notfounds = 1
    /\ max_retries = MaxRetriesArg
    /\ result = None

\* C2: when _download_with_progress leaves its except branch (returns False
\* after an exception raised before or between chunk writes), the destination
\* path does not exist on disk.
C2_FailedFetchLeavesNoFile ==
    [][(pc = "except" /\ pc' # "except") => ~Exists(files', save_path)]_vars

\* a transfer has failed after a chunk was written: the truncated file is on disk
C2_Witness ==
    /\ pc = "except"
    /\ xfer.pos >= 1
    /\ Exists(files, save_path)
    /\ files[save_path].data # <<>>
    /\ ~Complete(files[save_path])

\* C3: as long as every probe of a download_song call has returned a transient
\* status (neither 200 nor 404) no GET is issued and the disk is untouched; when
\* such a call has returned, it made exactly max_retries probes and returned None.
C3_TransientRetryBound ==
    /\ transients = probes => (fetches = 0 /\ files = startFiles)
    /\ (pc = "done" /\ transients = probes) =>
          (probes = max_retries /\ result = None)

C3_Witness ==
    /\ pc = "done"
    /\ max_retries = 2
    /\ probes = 2
    /\ transients = 2
    /\ sleeps2 = 1
    /\ result = None

\* a list-file line, classified from its characters: blank when it holds
\* nothing but white space, a comment when its first character that is not
\* white space is '#'
IsBlankLine(line) == \A i \in 1..Len(line) : line[i] \in Whitespace

IsCommentLine(line) ==
    \E i \in 1..Len(line) :
        /\ line[i] = "#"
        /\ \A j \in 1..(i - 1) : line[j] \in Whitespace

Eligible(line) == ~IsBlankLine(line) /\ ~IsCommentLine(line)

\* the indices of the eligible lines among the first n, in file order
RECURSIVE EligibleIndices(_, _)
EligibleIndices(ls, n) ==
    IF n = 0 THEN <<>>
    ELSE IF Eligible(ls[n]) THEN Append(EligibleIndices(ls, n - 1), n)
         ELSE EligibleIndices(ls, n - 1)

\* how many lines of the list file the loop of download_playlist has taken
LinesTaken ==
    CASE drv = "pl_loop" -> idx - 1
      [] drv = "pl_wait" -> idx
      [] drv = "pl_done" -> Len(lines)
      [] OTHER -> 0

\* C4: in download_playlist the lines passed to download_song are exactly the
\* lines taken so far that are neither blank after trimming nor comments, each
\* once and in file order; at the end the number of invocations is the number
\* of such lines.  The comment test is read as the code applies it, to the
\* trimmed line: a line whose first non-blank character is '#' is a comment.
C4_EligibleLinesAttempted ==
    drv \in {"pl_loop", "pl_wait", "pl_done"} =>
        LET want == EligibleIndices(lines, LinesTaken)
        IN  /\ Len(attempted) = Len(want)
            /\ \A k \in 1..Len(want) : attempted[k].line = want[k]

\* a blank line and an indented comment were skipped, the line after them was attempted
C4_Witness ==
    /\ drv = "pl_done"
    /\ Len(lines) = 2
    /\ IsCommentLine(lines[1])
    /\ lines[1][1] # "#"
    /\ Len(attempted) = 1
    /\ attempted[1].line = 2

\* C5: when the overwrite prompt of download_song is answered with anything
\* but yes (the answer is compared without regard to case, so 'Y' is a yes),
\* the call returns at once the existing path, the step issues no GET and
\* writes nothing, and the file at that path is as it was when the call began;
\* a call with the same identifier and file name as the previous call then
\* returns the path the previous call returned.
C5_DeclinedOverwrite ==
    /\ []((answer # None /\ ~IsYes(answer)) =>
            /\ pc = "done"
            /\ result # None
            /\ Exists(startFiles, result)
            /\ Exists(files, result)
            /\ files[result] = startFiles[result]
            /\ (filename \notin {None, <<>>} => fetches = 0)
            /\ (/\ filename \notin {None, <<>>}
                /\ lastCall.id = song_id
                /\ lastCall.filename = filename
                /\ lastCall.result # None) => result = lastCall.result)
    /\ [][(pc = "confirm" /\ answer' # None /\ ~IsYes(answer')) =>
            /\ pc' = "done"
            /\ result' = save_path
            /\ Exists(files, save_path)
            /\ fetches' = fetches
            /\ files' = files]_vars

\* the same line twice: the first call downloaded the file, the second declined
C5_Witness ==
    /\ pc = "done"
    /\ answer = <<"n">>
    /\ filename \notin {None, <<>>}
    /\ lastCall.id = song_id
    /\ lastCall.filename = filename
    /\ lastCall.result = result
    /\ result # None
    /\ fetches = 0

\* C6: in download_playlist one pacing sleep follows every attempted item,
\* whatever download_song returned; an item that returned None is followed by
\* the next line of the file, and at the end every eligible line was attempted.
C6_FailureDoesNotAbort ==
    /\ [](/\ drv = "pl_loop" => sleeps1 = Len(attempted)
          /\ drv = "pl_wait" => sleeps1 = Len(attempted) - 1
          /\ drv = "pl_done" =>
                /\ sleeps1 = Len(attempted)
                /\ \A i \in 1..Len(lines) :
                      Eligible(lines[i]) =>
                          \E k \in 1..Len(attempted) : attempted[k].line = i)
    /\ [][(drv = "pl_wait" /\ pc = "done" /\ result = None /\ drv' # drv) =>
            /\ drv' = "pl_loop"
            /\ idx' = idx + 1
            /\ sleeps1' = sleeps1 + 1
            /\ attempted' = attempted]_vars

\* the first item failed, the second was attempted and succeeded, two sleeps
C6_Witness ==
    /\ drv = "pl_done"
    /\ Len(attempted) = 2
    /\ Len(batchRet) = 1
    /\ lastCall.result # None
    /\ sleeps1 = 2

\* C7 as stated: in every reachable state every file on disk is complete.
C7_Original == \A p \in DOMAIN files : Complete(files[p])

\* C7: in every state in which no transfer is in progress (outside the
\* interval from _download_with_progress opening the destination to its
\* return), every file on disk holds the full content of a finished transfer.
C7_CompleteOutsideTransfer ==
    pc \notin {"stream", "except"} => \A p \in DOMAIN files : Complete(files[p])

\* a transfer failed, a later attempt of the same call succeeded
C7_Witness ==
    /\ pc = "done"
    /\ result # None
    /\ fetches >= 2
    /\ Exists(files, result)
    /\ files[result].data = <<"x", "y">>

\* how far a download_song call has come: attempts weigh more than the
\* position inside an attempt, a finished call more than any running one
Progress ==
    IF ~InCall THEN (MaxRetriesArg + 2) * 10
    ELSE retry * 10 +
         CASE pc = "loop" -> 0
           [] pc = "decide" -> 1
           [] pc = "confirm" -> 2
           [] pc = "get" -> 3
           [] pc = "stream" -> 4 + xfer.pos
           [] OTHER -> 8

\* C8: a download_song call makes at most max_retries probes and at most one
\* GET per probe; every step of a running call raises a measure that is
\* bounded by the measure of a finished call, so the call cannot run for ever;
\* it returns a path only when the overwrite was declined or a transfer
\* completed, and otherwise, unless a probe returned 404, it returns None
\* after max_retries attempts.
C8_BoundedAttempts ==
    /\ [](/\ probes <= max_retries
          /\ fetches <= probes
          /\ retry <= max_retries
          /\ (pc = "done" /\ result # None) =>
                \/ answer # None /\ ~IsYes(answer)
                \/ fetches >= 1 /\ Exists(files, result) /\ Complete(files[result])
          /\ (pc = "done" /\ result = None /\ notfounds = 0) =>
                probes = max_retries)
    /\ [][InCall => Progress' > Progress]_vars

\* every attempt reached the GET and failed there
C8_Witness ==
    /\ pc = "done"
    /\ result = None
    /\ max_retries = 2
    /\ probes = 2
    /\ fetches = 2
    /\ answer = None

\* C9: download_from_api never lets an exception out, and for a payload that
\* cannot be fetched, is not JSON, has an unexpected shape or holds no
\* identifier it returns the empty list without calling download_song.
C9_ApiNeverRaises ==
    /\ drv # "api_raised"
    /\ payload \in 1..Len(MalformedPayloads) =>
          /\ drv = "api_done"
          /\ batchRet = <<>>
          /\ attempted = <<>>
          /\ pc = "idle"
          /\ files = startFiles

\* a songs list with an element that has no id: the KeyError was caught
C9_Witness ==
    /\ drv = "api_done"
    /\ payload \in 1..Len(MalformedPayloads)
    /\ Payloads[payload].t = "dict"
    /\ Len(Payloads[payload].v) = 1
    /\ Payloads[payload].v[1][2].t = "list"
    /\ Len(Payloads[payload].v[1][2].v) = 2
    /\ batchRet = <<>>

\* the position of the first comma of s, 0 when it has none
FirstComma(s) ==
    IF \E i \in 1..Len(s) : s[i] = ","
    THEN CHOOSE i \in 1..Len(s) : s[i] = "," /\ \A j \in 1..(i - 1) : s[j] # ","
    ELSE 0

\* C10 as stated: an eligible line is split on its first comma only; the
\* identifier is the trimmed text before it, the file name the whole trimmed
\* text after it, and a line without a comma has no file name.
C10_SplitOnFirstComma ==
    (drv = "pl_wait" /\ Len(attempted) = 1) =>
        LET text == Strip(lines[attempted[1].line])
            c == FirstComma(text)
        IN  IF c = 0
            THEN attempted[1].id = text /\ attempted[1].fn = None
            ELSE /\ attempted[1].id = Strip(SubSeq(text, 1, c - 1))
                 /\ attempted[1].fn = Strip(SubSeq(text, c + 1, Len(text)))

\* C11: a 404 probe ends download_song at any attempt: the step in which a
\* probe answers 404 returns None at once, whatever attempts came before it,
\* and issues no GET and writes nothing; afterwards the call has made no
\* further probe and, the only sleeps being those before a probe, no further
\* sleep.
C11_NotFoundIsTerminal ==
    /\ [](notfounds >= 1 =>
            /\ pc = "done"
            /\ result = None
            /\ notfounds = 1
            /\ sleeps2 = probes - 1)
    /\ [][notfounds' > notfounds =>
            /\ pc' = "done"
            /\ result' = None
            /\ probes' = probes + 1
            /\ fetches' = fetches
            /\ files' = files]_vars

\* the 404 came on the second attempt, after a failed fetch
C11_Witness ==
    /\ pc = "done"
    /\ notfounds = 1
    /\ probes = 2
    /\ fetches = 1
    /\ max_retries >= 2
    /\ result = None

\* C12: within one download_song call no sleep precedes the first probe and
\* exactly one 2-second sleep precedes every later probe, so the number of
\* sleeps is the number of probes minus one; the last attempt is followed by
\* no sleep.
C12_SleepsBetweenAttempts ==
    /\ [](/\ probes = 0 => sleeps2 = 0
          /\ probes >= 1 => sleeps2 = probes - 1)
    /\ [][/\ probes' = probes + 1 =>
               sleeps2' = sleeps2 + (IF probes = 0 THEN 0 ELSE 1)
          /\ (InCall /\ probes' = probes) => sleeps2' = sleeps2]_vars

\* three kinds of failed attempt in one call: a transient status, a raised
\* probe or failed fetch, and the last one, with no sleep after it
C12_Witness ==
    /\ pc = "done"
    /\ result = None
    /\ probes = 2
    /\ transients = 1
    /\ fetches = 1
    /\ sleeps2 = 1

\* C13: in download_song a GET is issued only in an attempt whose probe
\* answered 200, after the file name was resolved and, when the destination
\* existed, after the overwrite was confirmed; each attempt goes from the
\* probe to the decision to the transfer in that order.
C13_ProtocolOrder ==
    /\ [](pc \in {"decide", "confirm", "get", "stream", "except"} =>
              response.status = OkStatus)
    /\ [](pc \in {"confirm", "get", "stream", "except"} => save_path # None)
    /\ [][/\ fetches' > fetches =>
               /\ pc = "get"
               /\ fetches' = fetches + 1
               /\ response.status = OkStatus
               /\ save_path # None
               /\ Exists(files, save_path) => IsYes(answer)
          /\ (pc' = "decide" /\ pc # "decide") => pc = "loop"
          /\ (pc' = "confirm" /\ pc # "confirm") => pc = "decide"
          /\ (pc' = "get" /\ pc # "get") => pc \in {"decide", "confirm"}
          /\ (pc' = "stream" /\ pc # "stream") => pc = "get"]_vars

\* a transient probe, then an attempt that went through the prompt to the GET
C13_Witness ==
    /\ pc = "stream"
    /\ transients = 1
    /\ probes = 2
    /\ fetches = 1
    /\ IsYes(answer)
    /\ response.status = OkStatus

\* the name the claim gives a destination: the override with .mp3 enforced,
\* else the name in the header, else netmusic_<id>.mp3
ClaimedName ==
    IF filename \notin {None, <<>>}
    THEN IF EndsWith(filename, Mp3) THEN filename ELSE filename \o Mp3
    ELSE IF Contains(response.cd, FilenameEq)
         THEN Utf8Decode(StripChars(AfterLast(response.cd, FilenameEq), {"\"", "'"})).v
         ELSE <<"n", "e", "t", "m", "u", "s", "i", "c", "_">> \o song_id \o Mp3

\* C14 as stated: once download_song has resolved its destination, the name
\* is the override with '.mp3' enforced, else the name in the
\* Content-Disposition header, else netmusic_<id>.mp3, and the destination is
\* the file of that name below the save directory.
C14_FilenamePrecedence ==
    (pc \in {"confirm", "get"} /\ save_path # None) =>
        /\ save_path = SaveDir \o <<"/">> \o ClaimedName
        /\ filename \notin {None, <<>>} => EndsWith(ClaimedName, Mp3)

OverridePath ==
    PathJoin(SaveDir, IF EndsWith(filename, Mp3) THEN filename ELSE filename \o Mp3)

\* C17: when the destination exists, the overwrite is confirmed and the
\* transfer then fails, the file that existed is gone when
\* _download_with_progress returns: it is neither kept nor restored; and when
\* the call then returns None, no file is at that path.
C17_ConfirmedOverwriteLosesFile ==
    /\ [][(pc = "except" /\ pc' # "except" /\ IsYes(answer)) =>
            ~Exists(files', save_path)]_vars
    /\ []((/\ pc = "done"
           /\ result = None
           /\ IsYes(answer)
           /\ filename \notin {None, <<>>}) =>
              /\ Exists(startFiles, OverridePath)
              /\ ~Exists(files, OverridePath))

\* the old file was there, the overwrite was confirmed, every attempt failed
C17_Witness ==
    /\ pc = "done"
    /\ result = None
    /\ IsYes(answer)
    /\ filename \notin {None, <<>>}
    /\ fetches = 2
    /\ Exists(startFiles, OverridePath)
    /\ ~Exists(files, OverridePath)

\* C18: the list download_playlist builds grows only when download_song has
\* returned, by that result at its end when the result is not None and not
\* at all otherwise, so it holds the non-None results in the order of the
\* attempts, duplicates included; it is never longer than the number of
\* attempted items and it is what the call returns; when the list file does
\* not exist the call returns the empty list with no attempt and no sleep.
C18_ReturnedListIsSuccesses ==
    /\ [](drv \in {"pl_loop", "pl_wait", "pl_done"} =>
            /\ Len(downloaded_files) <= Len(attempted)
            /\ drv = "pl_wait" => Len(downloaded_files) <= Len(attempted) - 1
            /\ drv = "pl_done" => batchRet = downloaded_files)
    /\ [][/\ (drv = "pl_wait" /\ drv' = "pl_loop") =>
               downloaded_files' = IF result = None THEN downloaded_files
                                   ELSE downloaded_files \o <<result>>
          /\ (drv \in {"pl_loop", "pl_wait"} /\ ~(drv = "pl_wait" /\ drv' = "pl_loop")) =>
               downloaded_files' = downloaded_files
          /\ (drv = "idle" /\ drv' = "pl_done") =>
               /\ batchRet' = <<>>
               /\ attempted' = <<>>
               /\ sleeps1' = 0
               /\ pc' = pc
               /\ probes' = probes
               /\ fetches' = fetches
               /\ files' = files]_vars

\* the same destination twice: the second item declined the overwrite or
\* downloaded the file again, and the returned list holds the path twice
C18_Witness ==
    /\ drv = "pl_done"
    /\ Len(attempted) = 2
    /\ Len(batchRet) = 2
    /\ batchRet[1] = batchRet[2]

\* a path names a file of the save directory itself whose name ends in .tmp
IsTmpOfSaveDir(q) ==
    \E n \in 1..Len(q) :
        /\ q = SaveDir \o <<"/">> \o SubSeq(q, Len(q) - n + 1, Len(q))
        /\ \A i \in (Len(q) - n + 1)..Len(q) : q[i] # "/"
        /\ n >= 4
        /\ SubSeq(q, Len(q) - 3, Len(q)) = <<".", "t", "m", "p">>

\* C16: --clean visits exactly the files of the save directory whose name
\* matches *.tmp; no other file is removed or changed, in particular no .mp3
\* download, nothing is created, and an unlink that fails leaves the loop
\* running with the files not yet visited, so when main returns every such
\* file was visited and cleaned counts the files that are gone.
C16_CleanRemovesOnlyTmp ==
    /\ [](ops = <<"clean">> =>
            /\ \A q \in DOMAIN startFiles :
                  ~IsTmpOfSaveDir(q) => (Exists(files, q) /\ files[q] = startFiles[q])
            /\ \A q \in DOMAIN files : Exists(startFiles, q) /\ files[q] = startFiles[q]
            /\ \A q \in todo : IsTmpOfSaveDir(q) /\ Exists(files, q)
            /\ mpc = "exit" =>
                  /\ todo = {}
                  /\ cleaned = Cardinality(DOMAIN startFiles \ DOMAIN files))
    /\ [][/\ (mpc = "start" /\ mpc' = "clean") =>
               todo' = { q \in DOMAIN files : IsTmpOfSaveDir(q) }
          /\ (mpc = "clean" /\ todo' # todo) =>
               /\ mpc' = "clean"
               /\ todo' \subseteq todo
               /\ Cardinality(todo') = Cardinality(todo) - 1
          /\ (mpc = "clean" /\ mpc' # "clean") => todo = {}]_vars

\* one temporary file could not be removed, the other one was
C16_Witness ==
    /\ mpc = "exit"
    /\ ops = <<"clean">>
    /\ cleaned = 1
    /\ Cardinality({ q \in DOMAIN files : IsTmpOfSaveDir(q) }) = 1
    /\ Cardinality({ q \in DOMAIN startFiles : IsTmpOfSaveDir(q) }) = 2

\* an option with a value was given on the command line (an empty value
\* counts as not given)
Given(x) == x # None /\ Len(x) > 0

\* the operation the precedence --list > --clean > --file > --id > menu selects
Chosen ==
    CASE args.list -> "list"
      [] ~args.list /\ args.clean -> "clean"
      [] ~args.list /\ ~args.clean /\ Given(args.file) -> "file"
      [] ~args.list /\ ~args.clean /\ ~Given(args.file) /\ Given(args.id) -> "id"
      [] OTHER -> "menu"

\* C19: main runs the one operation the precedence --list > --clean >
\* --file > --id > menu selects (an option given with an empty value counts
\* as not given) and then returns: with --list or --clean no probe and no
\* GET is ever issued and no download is started, whatever else is given;
\* with --file one download_playlist call and with --id one download_song
\* call is made; the menu loop is left by a return of main only when 4 was
\* chosen, every other choice leads back to the prompt (an exception raised
\* by input() ends the program abnormally and is not such a return).
C19_OneOperationByPrecedence ==
    /\ [](mpc \notin {"lib", "start"} =>
            /\ Chosen # "menu" => ops = <<Chosen>>
            /\ Chosen \in {"list", "clean"} =>
                  /\ probes = 0
                  /\ fetches = 0
                  /\ pc = "idle"
                  /\ drv = "idle"
                  /\ attempted = <<>>
            /\ Chosen = "list" => files = startFiles
            /\ Chosen = "file" => ctx # "top" \/ pc = "idle"
            /\ Chosen = "id" => drv = "idle" /\ ctx = "top"
            /\ (Chosen = "menu" /\ mpc = "exit") =>
                  (ops # <<>> /\ ops[Len(ops)] = <<"4">>))
    /\ [][/\ mpc = "start" =>
               /\ Chosen = "menu" => (mpc' = "menu" /\ ops' = <<>>)
               /\ Chosen # "menu" => ops' = <<Chosen>>
          /\ mpc \notin {"exit", "crashed"}
          /\ (Chosen = "file" /\ drv # "idle") => drv' # "idle"
          /\ (Chosen = "id" /\ pc # "idle") => (pc' # "idle" /\ ~(pc = "done" /\ pc' # "done"))
          /\ (mpc = "menu" /\ ops' # ops /\ ops'[Len(ops')] # <<"4">>) =>
               mpc' \in {"menu", "m1", "m2"}
          /\ (mpc # "exit" /\ mpc' = "exit" /\ Chosen = "menu") =>
               (mpc = "menu" /\ ops'[Len(ops')] = <<"4">>)]_vars

\* --list given together with --clean, -f and -i: only the listing ran
C19_Witness ==
    /\ mpc = "exit"
    /\ args.list
    /\ args.clean
    /\ Given(args.file)
    /\ Given(args.id)
    /\ ops = <<"list">>
    /\ probes = 0
    /\ files = startFiles
====
